---- MODULE Spec2Model ----
(***************************************************************************)
(* Model of the UPSC answer formatting workflow:                           *)
(*   src/app/graph/graph.py   (process_upsc_answer, the LangGraph wiring)  *)
(*   src/app/graph/agents.py  (OCR, verification / formatter agents, merge)*)
(*   src/app/service_log/combine_answer.py  (the page parser and its merge)*)
(*   src/main.py              (summarize_images, the /summarize endpoint)  *)
(*                                                                         *)
(* Spec     one submission, from its entry to what the caller gets back.   *)
(* SpecKeys several submissions building their clients side by side, with  *)
(*          the API key passing through os.environ.                        *)
(*                                                                         *)
(* Encoding of Python values.                                              *)
(*   A JSON scalar or list is a record [t, s, n, l]:                       *)
(*     t  the Python type ("null", "bool", "int", "str", "list"),          *)
(*     s  a text, as the sequence of its parts ("" is << >>; + is \o),     *)
(*     n  the number (or 1/0 for True/False),                              *)
(*     l  the items of a list, each item a sequence of strings             *)
(*        (a feedback pair ["x","y"] is <<"x","y">>).                      *)
(*   A dict is a function from a set of key strings to such values.        *)
(*   A decoded JSON document, and formatted_data, is a record [t, d, v]:   *)
(*     t = "dict" with the dict in d, t = "null" for None, otherwise       *)
(*     t = "other" with the non-dict value in v.                           *)
(*   A raw text (an OCR page, a model reply) is a sequence of tokens       *)
(*     [k, key, val, w]: "{"  "}"  a "key": value member, a 'key': value   *)
(*     member, a member whose array is nested too deep to decode, a        *)
(*     complete JSON array literal, a markdown fence, or a run of free     *)
(*     text; w is the number of characters the token stands for.           *)
(*     Consecutive members are separated by a comma.                       *)
(***************************************************************************)
EXTENDS Integers, Sequences, FiniteSets, TLC

\* ------------------------------------------------------------------ bounds
\* pages of a submitted ocr_texts
MaxPages == 2
\* images of a /summarize request
MaxSummarize == 3
\* pages of a submitted ocr_texts made of long pages
MaxLongPages == 5
\* images of a submission by image_paths or base64_images
MaxImages == 6
\* submissions that build their clients side by side
MaxSubs == 2

\* ------------------------------------------------------------ JSON values
JNull == [t |-> "null", s |-> << >>, n |-> 0, l |-> << >>]
JBool(b) == [t |-> "bool", s |-> << >>, n |-> IF b THEN 1 ELSE 0, l |-> << >>]
JInt(i) == [t |-> "int", s |-> << >>, n |-> i, l |-> << >>]
JStr(parts) == [t |-> "str", s |-> parts, n |-> 0, l |-> << >>]
JList(items) == [t |-> "list", s |-> << >>, n |-> 0, l |-> items]

\* Python truth value of a JSON value (bool(x)).
Truthy(v) ==
  CASE v.t = "null" -> FALSE
    [] v.t = "bool" -> v.n = 1
    [] v.t = "int" -> v.n # 0
    [] v.t = "str" -> v.s # << >>
    [] OTHER -> v.l # << >>

EmptyDict == [x \in {} |-> JNull]
DictSet(d, key, v) == [x \in (DOMAIN d) \cup {key} |-> IF x = key THEN v ELSE d[x]]
\* dict.get(key, default)
DictGet(d, key, default) == IF key \in DOMAIN d THEN d[key] ELSE default

DNone == [t |-> "null", d |-> EmptyDict, v |-> JNull]
DDict(d) == [t |-> "dict", d |-> d, v |-> JNull]
DOther(v) == [t |-> "other", d |-> EmptyDict, v |-> v]
\* bool(x) of a decoded document
DTruthy(x) ==
  CASE x.t = "null" -> FALSE
    [] x.t = "dict" -> DOMAIN x.d # {}
    [] OTHER -> Truthy(x.v)

\* 'key in x' for a decoded document x that is not a dict;
\* ok = FALSE stands for the TypeError of "in" on a non-container
KeyInOther(key, v) ==
  CASE v.t = "list" -> [ok |-> TRUE, isin |-> \E i \in 1..Len(v.l) : v.l[i] = <<key>>]
    [] v.t = "str" -> [ok |-> TRUE, isin |-> \E i \in 1..Len(v.s) : v.s[i] = key]
    [] OTHER -> [ok |-> FALSE, isin |-> FALSE]

\* ------------------------------------------------------------------ texts
LB == [k |-> "lb", key |-> "", val |-> JNull, w |-> 1]
RB == [k |-> "rb", key |-> "", val |-> JNull, w |-> 1]
Field(key, v) == [k |-> "field", key |-> key, val |-> v, w |-> 20]
Arr(v) == [k |-> "arr", key |-> "", val |-> v, w |-> 20]
Junk(phrase, width) == [k |-> "junk", key |-> phrase, val |-> JNull, w |-> width]
\* a member whose key is written in single quotes
SqField(key, v) == [k |-> "sqfield", key |-> key, val |-> v, w |-> 20]
\* a markdown code block marker: three backquotes, followed by the word
\* json (lang = "json") or by nothing (lang = "")
Fence(lang) == [k |-> "fence", key |-> lang, val |-> JNull, w |-> IF lang = "json" THEN 7 ELSE 3]
\* a "key": [[[[ ... ] member whose opening brackets are nested deeper than
\* json.loads can follow (it raises RecursionError on the array)
DeepField(key) == [k |-> "deepfield", key |-> key, val |-> JNull, w |-> 1020]

RECURSIVE TextLen(_)
\* len(text)
TextLen(text) == IF text = << >> THEN 0 ELSE Head(text).w + TextLen(Tail(text))

RECURSIVE Truncate(_, _)
\* text[:limit]; a token that is cut through is left as free text
Truncate(text, limit) ==
  IF text = << >> \/ limit <= 0 THEN << >>
  ELSE IF Head(text).w <= limit
       THEN <<Head(text)>> \o Truncate(Tail(text), limit - Head(text).w)
       ELSE <<Junk("cut", limit)>>

\* re.search(r'{.*}', text, re.DOTALL): the span from the first "{" to the
\* last "}" after it; found = FALSE when there is no such span.
re_search_braces(text) ==
  LET opens == {i \in 1..Len(text) : text[i].k = "lb"}
      first == CHOOSE i \in opens : \A j \in opens : i <= j
      closes == {i \in 1..Len(text) : text[i].k = "rb" /\ i > first}
      last == CHOOSE i \in closes : \A j \in closes : j <= i
  IN IF opens = {} THEN [found |-> FALSE, group |-> << >>]
     ELSE IF closes = {} THEN [found |-> FALSE, group |-> << >>]
     ELSE [found |-> TRUE, group |-> SubSeq(text, first, last)]

\* the members of a JSON object, a repeated key keeps its last value
MembersToDict(members) ==
  [key \in {members[i].key : i \in 1..Len(members)} |->
     members[CHOOSE i \in 1..Len(members) :
               /\ members[i].key = key
               /\ \A j \in (i + 1)..Len(members) : members[j].key # key].val]

\* json.loads(text): ok = FALSE stands for a raised JSONDecodeError
json_loads(text) ==
  IF Len(text) >= 2 /\ text[1].k = "lb" /\ text[Len(text)].k = "rb"
     /\ \A i \in 2..(Len(text) - 1) : text[i].k = "field"
  THEN [ok |-> TRUE, doc |-> DDict(MembersToDict(SubSeq(text, 2, Len(text) - 1))), msg |-> ""]
  ELSE IF Len(text) = 1 /\ text[1].k = "arr"
  THEN [ok |-> TRUE, doc |-> DOther(text[1].val), msg |-> ""]
  ELSE [ok |-> FALSE, doc |-> DNone, msg |-> "Expecting value"]

\* str(v) in "needle in content.lower()": the needles a phrase contains
PhraseSubstrings(phrase) ==
  CASE phrase = "relevant" -> {"relevant"}
    [] phrase = "not relevant" -> {"relevant", "not relevant"}
    [] phrase = "irrelevant" -> {"relevant"}
    [] phrase = "is_relevant" -> {"relevant"}
    [] phrase = "valid format" -> {"valid format"}
    [] phrase = "invalid format" -> {"valid format", "invalid format"}
    [] phrase = "not a valid format" -> {"valid format"}
    [] OTHER -> {}

\* needle in content.lower()
ContentContains(text, needle) ==
  \E i \in 1..Len(text) : needle \in PhraseSubstrings(text[i].key)

\* ------------------------------------------------------- program constants
TOKEN_LIMIT == 100000
CHAR_CAP == 25000
MAX_IMAGES == 5
OCR_CHAR_LIMIT == 30000
DEFAULT_WORD_LIMIT == 150
DEFAULT_MAXIMUM_MARKS == 10
NEXT_PAGE == "--- NEXT PAGE ---"
UPSC_DATA_FORMAT == <<"question", "answer", "feedback", "word_limit", "maximum_marks">>
required_fields == {"question", "answer", "feedback"}

\* ------------------------------------------------------------------ merge
RECURSIVE MergeAnswers(_, _)
\* third pass of merge_json_blocks, the answers: acc is merged["answer"];
\* ok = FALSE stands for the TypeError of str += <non-str>
MergeAnswers(json_outputs, acc) ==
  IF json_outputs = << >> THEN [ok |-> TRUE, s |-> acc]
  ELSE LET output == Head(json_outputs)
           has == "answer" \in DOMAIN output /\ Truthy(output["answer"])
       IN IF ~has THEN MergeAnswers(Tail(json_outputs), acc)
          ELSE IF output["answer"].t # "str" THEN [ok |-> FALSE, s |-> acc]
          ELSE MergeAnswers(Tail(json_outputs),
                 (IF acc # << >> THEN acc \o <<NEXT_PAGE>> ELSE acc) \o output["answer"].s)

RECURSIVE MergeFeedback_dedup(_)
\* MergeFeedback leaving out the pairs an earlier page has already given
MergeFeedback_dedup(json_outputs) ==
  IF json_outputs = << >> THEN << >>
  ELSE LET output == json_outputs[Len(json_outputs)]
           before == MergeFeedback_dedup(SubSeq(json_outputs, 1, Len(json_outputs) - 1))
           mine == IF "feedback" \in DOMAIN output /\ output["feedback"].t = "list"
                   THEN output["feedback"].l ELSE << >>
       IN before \o SelectSeq(mine, LAMBDA item : \A k \in 1..Len(before) : before[k] # item)

RECURSIVE MergeFeedback(_)
\* third pass of merge_json_blocks, the feedback lists
MergeFeedback(json_outputs) ==
  IF json_outputs = << >> THEN << >>
  ELSE LET output == Head(json_outputs)
           mine == IF "feedback" \in DOMAIN output /\ output["feedback"].t = "list"
                   THEN output["feedback"].l ELSE << >>
       IN mine \o MergeFeedback(Tail(json_outputs))

\* agents.merge_json_blocks(json_outputs); ok = FALSE stands for a raised
\* exception
merge_json_blocks(json_outputs) ==
  IF json_outputs = << >>
  THEN [ok |-> TRUE, d |-> ("error" :> JStr(<<"No outputs to merge">>))]
  ELSE
  LET first_page == json_outputs[1]
      last_page == json_outputs[Len(json_outputs)]
      \* the value of each key before the clean-up
      question == IF "question" \in DOMAIN first_page
                  THEN first_page["question"] ELSE JStr(<< >>)
      word_limit == IF "word_limit" \in DOMAIN first_page /\ Truthy(first_page["word_limit"])
                    THEN first_page["word_limit"] ELSE JInt(0)
      maximum_marks == IF "maximum_marks" \in DOMAIN first_page /\ Truthy(first_page["maximum_marks"])
                       THEN first_page["maximum_marks"] ELSE JInt(0)
      total_marks == IF "total_marks" \in DOMAIN last_page /\ Truthy(last_page["total_marks"])
                     THEN last_page["total_marks"] ELSE JNull
      answers == MergeAnswers(json_outputs, << >>)
      merged == ("question" :> question) @@ ("answer" :> JStr(answers.s))
                @@ ("feedback" :> JList(MergeFeedback(json_outputs)))
                @@ ("word_limit" :> word_limit) @@ ("maximum_marks" :> maximum_marks)
                @@ ("total_marks" :> total_marks)
      popped == {key \in {"question"} : ~Truthy(question)}
                \cup {key \in {"word_limit"} : word_limit = JInt(0)}
                \cup {key \in {"maximum_marks"} : maximum_marks = JInt(0)}
                \cup {key \in {"total_marks"} : total_marks.t = "null"}
  IN IF ~answers.ok THEN [ok |-> FALSE, d |-> EmptyDict]
     ELSE [ok |-> TRUE, d |-> [key \in (DOMAIN merged) \ popped |-> merged[key]]]

\* ------------------------------------- the page parser (combine_answer.py)
\* clean_markdown_json(raw_str): every code block marker is removed
clean_markdown_json(raw_str) == SelectSeq(raw_str, LAMBDA tok : tok.k # "fence")

\* re.sub(r'([{,])\s*\'([^\']+)\'\s*:', r'\1 "\2":', clean_str): a
\* single-quoted key that follows "{" or "," gets double quotes
fix_quotes(clean_str) ==
  [i \in 1..Len(clean_str) |->
     IF clean_str[i].k = "sqfield" /\ i > 1
        /\ clean_str[i - 1].k \in {"lb", "field", "sqfield"}
     THEN Field(clean_str[i].key, clean_str[i].val)
     ELSE clean_str[i]]

\* the first "key": value member of the text whose value has the type t
FirstMember(clean_str, key, t) ==
  LET hits == {i \in 1..Len(clean_str) :
                 /\ clean_str[i].k = "field" /\ clean_str[i].key = key
                 /\ clean_str[i].val.t = t}
  IN IF hits = {} THEN 0 ELSE CHOOSE i \in hits : \A j \in hits : i <= j

\* (?<!\\)"(?=,|\s*}) : token i holds a closing quote that a comma or the
\* closing brace follows
QuoteStop(clean_str, i) ==
  \/ /\ clean_str[i].k \in {"field", "sqfield"} /\ clean_str[i].val.t = "str"
     /\ i < Len(clean_str) /\ clean_str[i + 1].k \in {"field", "sqfield", "deepfield", "rb"}
  \/ /\ clean_str[i].val.t = "list"
     /\ \/ \E j \in 1..Len(clean_str[i].val.l) : Len(clean_str[i].val.l[j]) >= 2
        \/ /\ Len(clean_str[i].val.l) >= 2 /\ Len(clean_str[i].val.l[1]) = 1

\* the value the answer pattern captures: the text of the first "answer"
\* member up to the first quote that a comma or a brace follows, which is
\* past the answer's own closing quote when nothing of the kind follows it
regex_answer(clean_str) ==
  LET i == FirstMember(clean_str, "answer", "str")
  IN IF i = 0 \/ ~\E j \in i..Len(clean_str) : QuoteStop(clean_str, j)
     THEN [found |-> FALSE, val |-> JNull]
     ELSE IF QuoteStop(clean_str, i)
     THEN [found |-> TRUE, val |-> clean_str[i].val]
     ELSE [found |-> TRUE, val |-> JStr(clean_str[i].val.s \o <<"\" <the text that follows>">>)]

\* the feedback the third tier recovers from '"feedback": [ ... ]': the
\* pattern \[.*?\] ends at the first "]", so of a list of pairs the first
\* pair is all that is read
regex_feedback(clean_str) ==
  LET i == FirstMember(clean_str, "feedback", "list")
      items == clean_str[i].val.l
      nested == {j \in 1..Len(items) : Len(items[j]) # 1}
      first == CHOOSE j \in nested : \A m \in nested : j <= m
  IN IF i = 0 THEN [found |-> FALSE, val |-> JNull]
     ELSE IF nested = {} THEN [found |-> TRUE, val |-> JList(items)]
     ELSE IF Len(items[first]) = 2 THEN [found |-> TRUE, val |-> JList(<<items[first]>>)]
     ELSE [found |-> TRUE, val |-> JList(<< >>)]

\* the third tier of parse_json_block: the fields the patterns find
regex_extract(clean_str) ==
  LET question == FirstMember(clean_str, "question", "str")
      answer == regex_answer(clean_str)
      word_limit == FirstMember(clean_str, "word_limit", "int")
      maximum_marks == FirstMember(clean_str, "maximum_marks", "int")
      total_marks == FirstMember(clean_str, "total_marks", "str")
      feedback == regex_feedback(clean_str)
      found == {key \in {"question"} : question # 0}
               \cup {key \in {"answer"} : answer.found}
               \cup {key \in {"word_limit"} : word_limit # 0 /\ clean_str[word_limit].val.n >= 0}
               \cup {key \in {"maximum_marks"} : maximum_marks # 0 /\ clean_str[maximum_marks].val.n >= 0}
               \cup {key \in {"total_marks"} : total_marks # 0}
               \cup {key \in {"feedback"} : feedback.found}
  IN [key \in found |->
        CASE key = "question" -> clean_str[question].val
          [] key = "answer" -> answer.val
          [] key = "word_limit" -> clean_str[word_limit].val
          [] key = "maximum_marks" -> clean_str[maximum_marks].val
          [] key = "total_marks" -> clean_str[total_marks].val
          [] OTHER -> feedback.val]

\* first_tier taking any recovered field for a success
first_tier_any_field(standard, fixed, result) ==
  IF standard.ok THEN [tier |-> 1, doc |-> standard.doc]
  ELSE IF fixed.ok THEN [tier |-> 2, doc |-> fixed.doc]
  ELSE IF DOMAIN result # {}
  THEN [tier |-> 3, doc |-> DDict(result)]
  ELSE [tier |-> 0, doc |-> DNone]

\* the value parse_json_block returns, given what its three tiers produce:
\* standard = json.loads of the cleaned text, fixed = json.loads after the
\* quote repair, result = the fields the patterns find
first_tier(standard, fixed, result) ==
  IF standard.ok THEN [tier |-> 1, doc |-> standard.doc]
  ELSE IF fixed.ok THEN [tier |-> 2, doc |-> fixed.doc]
  ELSE IF "answer" \in DOMAIN result \/ "question" \in DOMAIN result
  THEN [tier |-> 3, doc |-> DDict(result)]
  ELSE [tier |-> 0, doc |-> DNone]

\* an extraction step of the third tier raises something its inner handler
\* does not catch: json.loads on the feedback array the pattern matched
\* raises RecursionError, not JSONDecodeError
extraction_raises(clean_str) ==
  \E i \in 1..Len(clean_str) : clean_str[i].k = "deepfield" /\ clean_str[i].key = "feedback"

\* what the third tier holds when it decides: the fields found, or nothing
\* when a step raised ("except Exception: return None")
third_tier_result(clean_str) ==
  IF extraction_raises(clean_str) THEN EmptyDict ELSE regex_extract(clean_str)

\* parse_json_block on the cleaned text
parse_clean(clean_str) ==
  first_tier(json_loads(clean_str), json_loads(fix_quotes(clean_str)),
             third_tier_result(clean_str))

\* parse_json_block(block_str): tier = the tier that produced the value
\* (0 = None is returned), doc = the value returned
parse_json_block(block_str) == parse_clean(clean_markdown_json(block_str))

\* ------------------------------------ the page merge (combine_answer.py)
\* '"key" in block' of merge_json_blocks; ok = FALSE stands for the
\* TypeError of "in" applied to a number
BlockHas(block, key) ==
  IF block.t = "dict" THEN [ok |-> TRUE, isin |-> key \in DOMAIN block.d]
  ELSE KeyInOther(key, block.v)

\* block[key] for a key the block has; a block that is not a dict cannot be
\* indexed by a key (TypeError), which BlockRaises accounts for
BlockGet(block, key) == IF block.t = "dict" THEN block.d[key] ELSE JNull

\* the blocks that have the key
Having(parsed_blocks, key) ==
  {i \in 1..Len(parsed_blocks) : BlockHas(parsed_blocks[i], key).isin}

\* a block that is not a dict makes the scans raise: "in" on a number, or
\* indexing a list or a str by a key it contains
BlockRaises(parsed_blocks) ==
  \E i \in 1..Len(parsed_blocks) :
    /\ parsed_blocks[i].t # "dict"
    /\ \E key \in {"question", "word_limit", "maximum_marks", "total_marks", "answer", "feedback"} :
         ~BlockHas(parsed_blocks[i], key).ok \/ BlockHas(parsed_blocks[i], key).isin

\* the forward scan "if key in block and not X: X = block[key]" from X = "":
\* the first non-empty value, else the value of the last block with the key
ScanForward(parsed_blocks, key) ==
  LET has == Having(parsed_blocks, key)
      full == {i \in has : Truthy(BlockGet(parsed_blocks[i], key))}
  IN IF full # {} THEN BlockGet(parsed_blocks[CHOOSE i \in full : \A j \in full : i <= j], key)
     ELSE IF has # {} THEN BlockGet(parsed_blocks[CHOOSE i \in has : \A j \in has : j <= i], key)
     ELSE JStr(<< >>)

\* the backward scan for total_marks: the last block that has the key, and
\* "0/0" when its value is empty or no block has the key
ScanBackward(parsed_blocks) ==
  LET has == Having(parsed_blocks, "total_marks")
      final_total_marks ==
        IF has = {} THEN JStr(<< >>)
        ELSE BlockGet(parsed_blocks[CHOOSE i \in has : \A j \in has : j <= i], "total_marks")
  IN IF Truthy(final_total_marks) THEN final_total_marks ELSE JStr(<<"0/0">>)

RECURSIVE JoinAnswers(_)
\* "\n\n".join(answers); ok = FALSE stands for the TypeError of join on an
\* answer that is not a str
JoinAnswers(answers) ==
  IF answers = << >> THEN [ok |-> TRUE, s |-> << >>]
  ELSE LET rest == JoinAnswers(Tail(answers))
       IN [ok |-> Head(answers).t = "str" /\ rest.ok,
           s |-> IF Len(answers) = 1 THEN Head(answers).s
                 ELSE Head(answers).s \o <<"\n\n">> \o rest.s]

RECURSIVE ExtendFeedback(_)
\* merged_feedback.extend(block["feedback"]) over the blocks: a list adds
\* its items, a str its characters; ok = FALSE stands for the TypeError of
\* extend on a value that is not iterable
ExtendFeedback(parsed_blocks) ==
  IF parsed_blocks = << >> THEN [ok |-> TRUE, l |-> << >>]
  ELSE LET block == Head(parsed_blocks)
           rest == ExtendFeedback(Tail(parsed_blocks))
           feedback == BlockGet(block, "feedback")
       IN IF ~BlockHas(block, "feedback").isin THEN rest
          ELSE IF feedback.t = "list" THEN [ok |-> rest.ok, l |-> feedback.l \o rest.l]
          ELSE IF feedback.t = "str"
          THEN [ok |-> rest.ok, l |-> [i \in 1..Len(feedback.s) |-> <<feedback.s[i]>>] \o rest.l]
          ELSE [ok |-> FALSE, l |-> << >>]

\* the blocks merge_json_blocks keeps: "if parsed:" keeps a parse result by
\* its truth value
parsed_blocks_of(raw_inputs) ==
  LET parsed == [i \in 1..Len(raw_inputs) |-> parse_json_block(raw_inputs[i]).doc]
  IN SelectSeq(parsed, DTruthy)

\* the answers list of merge_json_blocks: block["answer"] of the blocks that
\* have the key, in block order
answers_of(parsed_blocks, has) ==
  [i \in 1..Cardinality(has) |->
     BlockGet(parsed_blocks[CHOOSE j \in has : Cardinality({m \in has : m <= j}) = i], "answer")]

\* merge_json_blocks from its parsed blocks on, joined and merged_feedback
\* being what the answers and feedback loops produce; ok = FALSE stands for
\* a raised exception (exc). The answer [{"text": joined}] is the list whose
\* one item is the key "text" followed by the parts of the joined text.
final_output_of(parsed_blocks, joined, merged_feedback) ==
  IF parsed_blocks = << >>
  THEN [ok |-> FALSE, exc |-> "ValueError: No valid JSON blocks could be parsed.", d |-> EmptyDict]
  ELSE IF BlockRaises(parsed_blocks) \/ ~joined.ok \/ ~merged_feedback.ok
  THEN [ok |-> FALSE, exc |-> "TypeError", d |-> EmptyDict]
  ELSE [ok |-> TRUE, exc |-> "",
        d |-> ("question" :> ScanForward(parsed_blocks, "question"))
              @@ ("word_limit" :> ScanForward(parsed_blocks, "word_limit"))
              @@ ("maximum_marks" :> ScanForward(parsed_blocks, "maximum_marks"))
              @@ ("answer" :> JList(<< <<"text">> \o joined.s >>))
              @@ ("feedback" :> JList(merged_feedback.l))
              @@ ("total_marks" :> ScanBackward(parsed_blocks))]

\* merge_json_blocks on the blocks it kept
merge_parsed(parsed_blocks) ==
  final_output_of(parsed_blocks,
                  JoinAnswers(answers_of(parsed_blocks, Having(parsed_blocks, "answer"))),
                  ExtendFeedback(parsed_blocks))

\* combine_answer.merge_json_blocks(raw_inputs)
combine_merge_json_blocks(raw_inputs) == merge_parsed(parsed_blocks_of(raw_inputs))

\* --------------------------------------------------- inputs of the model
Q1 == JStr(<<"Q1">>)
Q2 == JStr(<<"Q2">>)
A1 == JStr(<<"A1">>)
A2 == JStr(<<"A2">>)
FB1 == JList(<< <<"A", "b">> >>)
FB2 == JList(<< <<"C", "d">> >>)

\* a complete single-page record, nothing around it
Page_complete ==
  <<LB, Field("question", Q1), Field("answer", A1), Field("feedback", FB1), RB>>
\* a first page, the JSON object wrapped in free text
Page_first ==
  <<Junk("Here is the JSON", 16), LB, Field("question", Q1), Field("answer", A1),
    Field("feedback", FB1), Field("word_limit", JInt(200)),
    Field("maximum_marks", JInt(15)), RB, Junk("done", 4)>>
\* a page without question, with total_marks
Page_last ==
  <<LB, Field("answer", A2), Field("feedback", FB2),
    Field("total_marks", JStr(<<"7/10">>)), RB>>
\* a page that supplies question and limits, with an empty total_marks
Page_late_question ==
  <<LB, Field("question", Q2), Field("answer", A2), Field("word_limit", JInt(250)),
    Field("maximum_marks", JInt(20)), Field("total_marks", JStr(<< >>)), RB>>
\* a page whose answer is a number
Page_bad_answer == <<LB, Field("answer", JInt(7)), RB>>
\* braces around something that is not JSON
Page_malformed == <<LB, Junk("garbage", 7), RB>>
\* the error-tagged text of a failed extraction
Page_error == <<Junk("MistralAI OCR Error", 19)>>
\* a very long page (more than 4 * TOKEN_LIMIT characters)
Page_huge == <<LB, Field("answer", A1), RB, Junk("filler", 400100)>>

\* a long page of TOKEN_LIMIT characters: above CHAR_CAP, and four of them
\* are estimated at exactly TOKEN_LIMIT tokens
Page_long == <<LB, Field("answer", A2), RB, Junk("filler", 99978)>>

SampleTexts ==
  {Page_complete, Page_first, Page_last, Page_late_question, Page_bad_answer,
   Page_malformed, Page_error, Page_huge}

PageSeqs == UNION {[1..n -> SampleTexts] : n \in 0..MaxPages}

\* submissions of long pages only
LongTexts == {Page_huge, Page_long}
LongSeqs == UNION {[1..n -> LongTexts] : n \in 1..MaxLongPages}

\* the submissions: ocr_texts, or a number of images (the images themselves
\* play no part) given as image_paths or as base64_images
Submissions ==
  {[entry |-> e, ocr_texts |-> t, image_paths |-> 0, base64_images |-> 0] :
     e \in {"process_upsc_answer", "workflow"}, t \in PageSeqs \cup LongSeqs}
  \cup {[entry |-> "process_upsc_answer", ocr_texts |-> << >>, image_paths |-> n,
         base64_images |-> 0] : n \in 1..MaxImages}
  \cup {[entry |-> "process_upsc_answer", ocr_texts |-> << >>, image_paths |-> 0,
         base64_images |-> n] : n \in 1..MaxImages}
  \cup {[entry |-> "summarize_images", ocr_texts |-> << >>, image_paths |-> 0,
         base64_images |-> n] : n \in 0..MaxSummarize}

\* A reply of the external model: raises = the call raised; isstr = the
\* content is a str; text = the content.
Reply(text) == [raises |-> FALSE, isstr |-> TRUE, text |-> text]
ReplyRaises == [raises |-> TRUE, isstr |-> FALSE, text |-> << >>]
ReplyNotStr == [raises |-> FALSE, isstr |-> FALSE, text |-> << >>]

VJson(rel, fmt, reason) ==
  <<LB, Field("is_relevant", rel), Field("has_valid_format", fmt),
    Field("reason", reason), RB>>

VerificationReplies ==
  { ReplyRaises, ReplyNotStr,
    Reply(VJson(JBool(TRUE), JBool(TRUE), JStr(<<"ok">>))),
    Reply(VJson(JBool(FALSE), JBool(TRUE), JStr(<<"not an answer">>))),
    Reply(VJson(JBool(FALSE), JBool(FALSE), JNull)),
    Reply(VJson(JStr(<<"no">>), JStr(<<"no">>), JStr(<<"not an answer">>))),
    Reply(<<LB, Field("is_relevant", JBool(TRUE)), Field("has_valid_format", JBool(FALSE)), RB>>),
    Reply(<<LB, Field("is_relevant", JBool(TRUE)), RB>>),
    Reply(<<LB, Junk("garbage", 7), RB>>),
    Reply(<<Junk("relevant", 8), Junk("valid format", 12)>>),
    Reply(<<Junk("irrelevant", 10), Junk("not a valid format", 18)>>),
    Reply(<<Junk("not relevant", 12), Junk("invalid format", 14)>>),
    Reply(<<Junk("cannot say", 10)>>) }

\* a page longer than OCR_CHAR_LIMIT
Page_ocr_long == <<LB, Field("answer", A1), RB, Junk("filler", 30100)>>

\* the replies of the vision model to a call of process_multiple_images
OcrReplies == {ReplyRaises, Reply(Page_ocr_long)}
\* the replies of the vision model to a call of process_image
ImageReplies == {ReplyRaises, Reply(Page_last)}

\* a valid record inside a markdown code block
Out_fenced ==
  <<Fence("json"), LB, Field("question", Q1), Field("answer", A1),
    Field("feedback", FB1), RB, Fence("")>>
\* the empty object
Out_empty_object == <<LB, RB>>
\* a record whose keys are written in single quotes
Out_single_quotes == <<LB, SqField("question", Q2), SqField("answer", A2), RB>>
\* an answer at the very end of a text that is not JSON
Out_answer_last == <<Junk("The page says", 13), Field("answer", A1)>>
\* a JSON array
Out_array == <<Arr(FB1)>>
\* free text with limits, marks and feedback, without question or answer
Out_numbers_only ==
  <<Junk("The page says", 13), Field("word_limit", JInt(200)),
    Field("total_marks", JStr(<<"7/10">>)), Field("feedback", FB1)>>
\* free text with a question and the marks, without an answer
Out_question_only ==
  <<Junk("The page says", 13), Field("question", Q1), Field("maximum_marks", JInt(15))>>
\* free text with a question and a feedback array nested too deep
Out_deep_feedback ==
  <<Junk("The page says", 13), Field("question", Q1), DeepField("feedback")>>

\* the replies of the vision model to a call of summarize_images
SummarizeReplies ==
  { ReplyRaises, Reply(Page_complete), Reply(Out_fenced), Reply(Out_empty_object),
    Reply(Page_last), Reply(Out_single_quotes), Reply(Page_first), Reply(Page_error),
    Reply(Page_bad_answer), Reply(Out_answer_last), Reply(Page_late_question),
    Reply(Out_array), Reply(Out_numbers_only), Reply(Out_question_only),
    Reply(Out_deep_feedback) }

FormatterReplies ==
  { ReplyRaises, ReplyNotStr,
    Reply(<<Junk("Here is the JSON", 16), LB, Field("question", Q1), Field("answer", A1),
            Field("feedback", FB1), Field("word_limit", JInt(200)),
            Field("maximum_marks", JInt(15)), RB>>),
    Reply(<<LB, Field("answer", A1), RB>>),
    Reply(<<LB, Junk("garbage", 7), RB>>),
    Reply(<<Junk("sorry", 5)>>),
    Reply(<<Arr(JList(<< <<"A", "b">> >>))>>),
    Reply(<<Arr(JList(<< <<"question">>, <<"answer">>, <<"feedback">>,
                         <<"word_limit">>, <<"maximum_marks">> >>))>>) }

\* ------------------------------------------------------------------ state
VARIABLES
  pc,        \* where the run stands
  args,      \* the call: [entry, ocr_texts]
  state,     \* the AgentState threaded through the graph
  calls,     \* the external model calls issued so far, with their replies
  path,      \* the branch the formatting stage took
  swallowed, \* the exceptions the formatting stage caught and passed over
  result,    \* what the caller gets back
  ocr,       \* the extraction: [batch, texts, warned], and extracted_texts,
             \* the local of that name when process_upsc_answer runs the graph
  environ,   \* os.environ["MISTRAL_API_KEY"] of the process
  subs       \* the submissions that build their clients, see SpecKeys

vars == <<pc, args, state, calls, path, swallowed, result, ocr, environ, subs>>

StateKeys ==
  {"messages", "ocr_texts", "is_relevant", "has_valid_format", "formatted_data",
   "error", "status"}

\* AgentState(...) as built by process_upsc_answer
initial_state(extracted_texts) ==
  [messages |-> << >>, ocr_texts |-> extracted_texts, is_relevant |-> JBool(FALSE),
   has_valid_format |-> JBool(FALSE), formatted_data |-> DNone, error |-> JNull,
   status |-> "initialized"]

NoResult == [kind |-> "pending", keys |-> {}, error |-> JNull, data |-> DNone]

\* no extraction loop has run
NoOcr == [batch |-> 0, texts |-> << >>, warned |-> FALSE, extracted_texts |-> << >>]
\* no api_key, no MISTRAL_API_KEY in the environment
NoKey == "none"
NoSubs == [p \in {} |-> NoKey]

Init ==
  /\ pc = "start"
  /\ args \in Submissions
  /\ state = initial_state(<< >>)
  /\ calls = << >>
  /\ path = "none"
  /\ swallowed = {}
  /\ result = NoResult
  /\ ocr = NoOcr
  /\ environ = NoKey
  /\ subs = NoSubs

\* ----------------------------------------------------------- verification
\* verification_input taking the page before the middle one
verification_input_low_middle(ocr_texts) ==
  LET n == Len(ocr_texts)
      RECURSIVE Total(_)
      Total(i) == IF i = 0 THEN 0 ELSE TextLen(ocr_texts[i]) + Total(i - 1)
      reduced ==
        IF Total(n) \div 4 > TOKEN_LIMIT /\ n > 3
        THEN <<ocr_texts[1], ocr_texts[((n - 1) \div 2) + 1], ocr_texts[n]>>
        ELSE ocr_texts
  IN [i \in 1..Len(reduced) |-> Truncate(reduced[i], CHAR_CAP)]

\* the pages data_verification_agent puts into its prompt
verification_input(ocr_texts) ==
  LET n == Len(ocr_texts)
      RECURSIVE Total(_)
      Total(i) == IF i = 0 THEN 0 ELSE TextLen(ocr_texts[i]) + Total(i - 1)
      estimated_tokens == Total(n) \div 4
      reduced ==
        IF estimated_tokens > TOKEN_LIMIT
        THEN IF n > 3
             THEN <<ocr_texts[1], ocr_texts[(n \div 2) + 1], ocr_texts[n]>>
             ELSE [i \in 1..n |-> Truncate(ocr_texts[i], CHAR_CAP)]
        ELSE ocr_texts
  IN [i \in 1..Len(reduced) |-> Truncate(reduced[i], CHAR_CAP)]

\* the verification_result dict data_verification_agent derives from a reply
\* whose content is not a JSON object
heuristic_result(reply) ==
  IF reply.isstr
  THEN ("is_relevant" :> JBool(ContentContains(reply.text, "relevant")
                               /\ ~ContentContains(reply.text, "not relevant")))
       @@ ("has_valid_format" :> JBool(ContentContains(reply.text, "valid format")
                                       /\ ~ContentContains(reply.text, "invalid format")))
       @@ ("reason" :> JStr(<<"Extracted from text content">>))
  ELSE ("is_relevant" :> JBool(FALSE)) @@ ("has_valid_format" :> JBool(FALSE))
       @@ ("reason" :> JStr(<<"Invalid LLM response">>))

\* verification_result as data_verification_agent reads it from the reply
verification_result_of(reply) ==
  LET json_match == re_search_braces(reply.text)
  IN IF reply.isstr /\ json_match.found
     THEN json_loads(json_match.group).doc.d
     ELSE heuristic_result(reply)

\* verification_update writing the pages it kept for its prompt back into
\* the state
verification_update_stores_pages(st, reply) ==
  LET json_match == re_search_braces(reply.text)
      loaded == json_loads(json_match.group)
      verification_result == verification_result_of(reply)
      is_relevant == DictGet(verification_result, "is_relevant", JBool(FALSE))
      has_valid_format == DictGet(verification_result, "has_valid_format", JBool(FALSE))
      kept == verification_input(st.ocr_texts)
  IN IF reply.isstr /\ json_match.found /\ ~loaded.ok
     THEN [st EXCEPT !.is_relevant = JBool(FALSE), !.has_valid_format = JBool(FALSE),
                     !.error = JStr(<<"Verification processing error: ", loaded.msg>>),
                     !.status = "failed_verification", !.ocr_texts = kept]
     ELSE IF ~Truthy(is_relevant) \/ ~Truthy(has_valid_format)
     THEN [st EXCEPT !.is_relevant = is_relevant, !.has_valid_format = has_valid_format,
                     !.status = "failed_verification",
                     !.error = DictGet(verification_result, "reason",
                                       JStr(<<"Failed verification check">>)),
                     !.ocr_texts = kept]
     ELSE [st EXCEPT !.is_relevant = is_relevant, !.has_valid_format = has_valid_format,
                     !.status = "verified", !.ocr_texts = kept]

\* verification_update reporting verified as soon as one of the two checks
\* passed
verification_update_one_passed(st, reply) ==
  LET json_match == re_search_braces(reply.text)
      loaded == json_loads(json_match.group)
      verification_result == verification_result_of(reply)
      is_relevant == DictGet(verification_result, "is_relevant", JBool(FALSE))
      has_valid_format == DictGet(verification_result, "has_valid_format", JBool(FALSE))
  IN IF reply.isstr /\ json_match.found /\ ~loaded.ok
     THEN [st EXCEPT !.is_relevant = JBool(FALSE), !.has_valid_format = JBool(FALSE),
                     !.error = JStr(<<"Verification processing error: ", loaded.msg>>),
                     !.status = "failed_verification"]
     ELSE IF ~Truthy(is_relevant) /\ ~Truthy(has_valid_format)
     THEN [st EXCEPT !.is_relevant = is_relevant, !.has_valid_format = has_valid_format,
                     !.status = "failed_verification",
                     !.error = DictGet(verification_result, "reason",
                                       JStr(<<"Failed verification check">>))]
     ELSE [st EXCEPT !.is_relevant = is_relevant, !.has_valid_format = has_valid_format,
                     !.status = "verified"]

\* the state data_verification_agent returns for a reply of the model
verification_update(st, reply) ==
  LET json_match == re_search_braces(reply.text)
      loaded == json_loads(json_match.group)
      verification_result == verification_result_of(reply)
      is_relevant == DictGet(verification_result, "is_relevant", JBool(FALSE))
      has_valid_format == DictGet(verification_result, "has_valid_format", JBool(FALSE))
  IN IF reply.isstr /\ json_match.found /\ ~loaded.ok
     THEN [st EXCEPT !.is_relevant = JBool(FALSE), !.has_valid_format = JBool(FALSE),
                     !.error = JStr(<<"Verification processing error: ", loaded.msg>>),
                     !.status = "failed_verification"]
     ELSE IF ~Truthy(is_relevant) \/ ~Truthy(has_valid_format)
     THEN [st EXCEPT !.is_relevant = is_relevant, !.has_valid_format = has_valid_format,
                     !.status = "failed_verification",
                     !.error = DictGet(verification_result, "reason",
                                       JStr(<<"Failed verification check">>))]
     ELSE [st EXCEPT !.is_relevant = is_relevant, !.has_valid_format = has_valid_format,
                     !.status = "verified"]

\* verification_empty recording the generic reason instead of the fixed message
verification_empty_generic(st) ==
  [st EXCEPT !.is_relevant = JBool(FALSE), !.has_valid_format = JBool(FALSE),
             !.error = JStr(<<"Failed verification check">>),
             !.status = "failed_verification"]

\* the state data_verification_agent returns without a call, for no pages
verification_empty(st) ==
  [st EXCEPT !.is_relevant = JBool(FALSE), !.has_valid_format = JBool(FALSE),
             !.error = JStr(<<"No OCR text provided.">>),
             !.status = "failed_verification"]

Raised == [kind |-> "exception", keys |-> {}, error |-> JNull, data |-> DNone]

data_verification_agent ==
  /\ pc = "data_verification"
  /\ IF state.ocr_texts = << >>
     THEN /\ state' = verification_empty(state)
          /\ pc' = "decide_after_verification"
          /\ UNCHANGED <<calls, result>>
     ELSE \E reply \in VerificationReplies :
            /\ calls' = Append(calls, [node |-> "data_verification",
                                       prompt |-> "DATA_VERIFICATION_PROMPT", idx |-> 0,
                                       pages |-> verification_input(state.ocr_texts),
                                       reply |-> reply])
            /\ IF reply.raises
               THEN pc' = "raised" /\ result' = Raised /\ state' = state
               ELSE /\ pc' = "decide_after_verification"
                    /\ state' = verification_update(state, reply)
                    /\ result' = result
  /\ UNCHANGED <<args, path, swallowed, ocr, environ, subs>>

\* ------------------------------------------------------------- formatting
\* single_page_shortcut running the record through the validation defaults
single_page_shortcut_defaults(text) ==
  LET json_match == re_search_braces(text)
      loaded == json_loads(json_match.group)
  IN [hit |-> json_match.found /\ loaded.ok /\ required_fields \subseteq DOMAIN loaded.doc.d,
      raised |-> json_match.found /\ ~loaded.ok,
      data |-> IF loaded.doc.t = "dict"
               THEN DDict([key \in (DOMAIN loaded.doc.d) \cup {"word_limit", "maximum_marks"} |->
                             IF key \in DOMAIN loaded.doc.d THEN loaded.doc.d[key]
                             ELSE JInt(0)])
               ELSE loaded.doc]

\* the single-page block of data_formatter_agent on ocr_texts[0]:
\* hit = the page holds a JSON object with all required fields,
\* raised = json.loads raised (and the bare except passed over it)
single_page_shortcut(text) ==
  LET json_match == re_search_braces(text)
      loaded == json_loads(json_match.group)
  IN [hit |-> json_match.found /\ loaded.ok /\ required_fields \subseteq DOMAIN loaded.doc.d,
      raised |-> json_match.found /\ ~loaded.ok,
      data |-> loaded.doc]

\* the json_results list data_formatter_agent builds for several pages
json_results_of(ocr_texts) ==
  [i \in 1..Len(ocr_texts) |->
     LET json_match == re_search_braces(ocr_texts[i])
         loaded == json_loads(json_match.group)
     IN IF json_match.found /\ loaded.ok
        THEN loaded.doc.d
        ELSE ("text" :> JStr(<<"<page text>">>)) @@ ("index" :> JInt(i - 1))]

\* all(isinstance(result, dict) and not result.get('index', None) ...)
all_results_valid(json_results) ==
  \A i \in 1..Len(json_results) : ~Truthy(DictGet(json_results[i], "index", JNull))

\* the multi-page block of data_formatter_agent:
\* hit = the results were merged, raised = merge_json_blocks raised
multi_page_merge(ocr_texts) ==
  LET json_results == json_results_of(ocr_texts)
      merged_result == merge_json_blocks(json_results)
  IN [hit |-> all_results_valid(json_results) /\ merged_result.ok,
      raised |-> all_results_valid(json_results) /\ ~merged_result.ok,
      data |-> DDict(merged_result.d),
      json_results |-> json_results]

\* the default data_formatter_agent gives a missing key
default_of(key) ==
  CASE key = "word_limit" -> JInt(DEFAULT_WORD_LIMIT)
    [] key = "maximum_marks" -> JInt(DEFAULT_MAXIMUM_MARKS)
    [] OTHER -> JNull

\* the validation loop over UPSC_DATA_FORMAT; ok = FALSE stands for the
\* TypeError of an item assignment on (or "in" applied to) a non-dict
with_defaults(doc) ==
  IF doc.t = "dict"
  THEN [ok |-> TRUE,
        doc |-> DDict([key \in (DOMAIN doc.d) \cup {UPSC_DATA_FORMAT[i] : i \in 1..Len(UPSC_DATA_FORMAT)} |->
                         IF key \in DOMAIN doc.d THEN doc.d[key] ELSE default_of(key)]),
        msg |-> ""]
  ELSE IF doc.t = "other"
          /\ \A i \in 1..Len(UPSC_DATA_FORMAT) :
               KeyInOther(UPSC_DATA_FORMAT[i], doc.v).ok /\ KeyInOther(UPSC_DATA_FORMAT[i], doc.v).isin
  THEN [ok |-> TRUE, doc |-> doc, msg |-> ""]
  ELSE [ok |-> FALSE, doc |-> DNone, msg |-> "TypeError"]

\* formatter_update keeping what it had decoded when the validation raises
formatter_update_keep_data(st, reply) ==
  LET json_match == re_search_braces(reply.text)
      loaded == IF json_match.found THEN json_loads(json_match.group)
                ELSE json_loads(reply.text)
      checked == with_defaults(loaded.doc)
  IN IF reply.isstr /\ loaded.ok /\ checked.ok
     THEN [st EXCEPT !.formatted_data = checked.doc, !.status = "formatted"]
     ELSE [st EXCEPT !.error = JStr(<<"Formatting error: ", loaded.msg>>),
                     !.status = "failed_formatting",
                     !.formatted_data = IF reply.isstr THEN loaded.doc ELSE DNone]

\* formatter_update leaving the status alone when the reply cannot be used
formatter_update_no_status(st, reply) ==
  LET json_match == re_search_braces(reply.text)
      loaded == IF json_match.found THEN json_loads(json_match.group)
                ELSE json_loads(reply.text)
  IN IF reply.isstr /\ loaded.ok /\ loaded.doc.t = "dict"
     THEN [st EXCEPT !.formatted_data = loaded.doc, !.status = "formatted"]
     ELSE [st EXCEPT !.error = JStr(<<"Formatting error: ", loaded.msg>>),
                     !.formatted_data = DNone]

\* the state data_formatter_agent returns for a reply of the model
formatter_update(st, reply) ==
  LET json_match == re_search_braces(reply.text)
      loaded == IF json_match.found THEN json_loads(json_match.group)
                ELSE json_loads(reply.text)
      checked == with_defaults(loaded.doc)
      msg == IF ~reply.isstr THEN "Invalid LLM response format"
             ELSE IF ~loaded.ok THEN loaded.msg ELSE checked.msg
  IN IF reply.isstr /\ loaded.ok /\ checked.ok
     THEN [st EXCEPT !.formatted_data = checked.doc, !.status = "formatted"]
     ELSE [st EXCEPT !.error = JStr(<<"Formatting error: ", msg>>),
                     !.status = "failed_formatting",
                     !.formatted_data = DNone]

data_formatter_agent ==
  /\ pc = "data_formatter"
  /\ LET ocr_texts == state.ocr_texts
         single == single_page_shortcut(ocr_texts[1])
         multi == multi_page_merge(ocr_texts)
     IN IF ~Truthy(state.is_relevant) \/ ~Truthy(state.has_valid_format)
        THEN /\ state' = [state EXCEPT !.status = "skipped_formatting"]
             /\ path' = "skipped"
             /\ pc' = "decide_after_formatter"
             /\ UNCHANGED <<calls, swallowed, result>>
        ELSE IF Len(ocr_texts) = 1 /\ single.hit
        THEN /\ state' = [state EXCEPT !.formatted_data = single.data, !.status = "formatted"]
             /\ path' = "shortcut"
             /\ pc' = "decide_after_formatter"
             /\ UNCHANGED <<calls, swallowed, result>>
        ELSE IF Len(ocr_texts) > 1 /\ multi.hit
        THEN /\ state' = [state EXCEPT !.formatted_data = multi.data, !.status = "formatted"]
             /\ path' = "merge"
             /\ pc' = "decide_after_formatter"
             /\ UNCHANGED <<calls, swallowed, result>>
        ELSE \E reply \in FormatterReplies :
               /\ path' = "model"
               /\ swallowed' = {e \in {"page_parse"} : Len(ocr_texts) = 1 /\ single.raised}
                               \cup {e \in {"merge"} : Len(ocr_texts) > 1 /\ multi.raised}
               /\ calls' = Append(calls, [node |-> "data_formatter",
                                          prompt |-> "DATA_FORMATTER_PROMPT", idx |-> 0,
                                          pages |-> ocr_texts, reply |-> reply])
               /\ IF reply.raises
                  THEN pc' = "raised" /\ result' = Raised /\ state' = state
                  ELSE /\ pc' = "decide_after_formatter"
                       /\ state' = formatter_update(state, reply)
                       /\ result' = result
  /\ UNCHANGED <<args, ocr, environ, subs>>

\* ------------------------------------------------------------------ graph
\* decide_next_step routing every state that verification has left to the
\* formatter
decide_next_step_any(status) ==
  IF status \in {"verified", "failed_verification"} THEN "data_formatter" ELSE "end"

\* decide_next_step(state)
decide_next_step(status) ==
  IF status = "verified" THEN "data_formatter" ELSE "end"

\* the conditional edge after data_verification
route_after_verification ==
  /\ pc = "decide_after_verification"
  /\ pc' = decide_next_step(state.status)
  /\ UNCHANGED <<args, state, calls, path, swallowed, result, ocr, environ, subs>>

\* the conditional edge after data_formatter; its mapping has the key "end"
\* only, any other answer of decide_next_step is a routing error
route_after_formatter ==
  /\ pc = "decide_after_formatter"
  /\ IF decide_next_step(state.status) = "end"
     THEN pc' = "end" /\ result' = result
     ELSE pc' = "raised" /\ result' = Raised
  /\ UNCHANGED <<args, state, calls, path, swallowed, ocr, environ, subs>>

\* ----------------------------------------------------------------- entry
\* the size check of process_upsc_answer, made once initial_state is built:
\* over the estimate the name extracted_texts is bound to a new list of cut
\* texts; the list initial_state holds is the one built before
texts_after_check(extracted_texts) ==
  LET RECURSIVE Total(_)
      Total(i) == IF i = 0 THEN 0 ELSE TextLen(extracted_texts[i]) + Total(i - 1)
      total_chars == Total(Len(extracted_texts))
  IN IF total_chars \div 4 > TOKEN_LIMIT
     THEN [i \in 1..Len(extracted_texts) |-> Truncate(extracted_texts[i], CHAR_CAP)]
     ELSE extracted_texts

\* process_upsc_answer up to the extraction: ocr_texts enter the graph as
\* they are, image_paths are read one by one, base64_images go to
\* process_multiple_images (which keeps the first MAX_IMAGES and prints a
\* warning), and no input at all returns the error dict
process_upsc_answer_call ==
  /\ pc = "start"
  /\ args.entry = "process_upsc_answer"
  /\ IF args.ocr_texts # << >>
     THEN /\ pc' = "data_verification"
          /\ state' = initial_state(args.ocr_texts)
          /\ ocr' = [ocr EXCEPT !.extracted_texts = texts_after_check(args.ocr_texts)]
          /\ result' = result
     ELSE IF args.image_paths > 0
     THEN /\ pc' = "process_image"
          /\ ocr' = [batch |-> args.image_paths, texts |-> << >>, warned |-> FALSE,
                     extracted_texts |-> << >>]
          /\ UNCHANGED <<result, state>>
     ELSE IF args.base64_images > 0
     THEN /\ pc' = "process_multiple_images"
          /\ ocr' = [batch |-> IF args.base64_images > MAX_IMAGES THEN MAX_IMAGES
                               ELSE args.base64_images,
                     texts |-> << >>,
                     warned |-> args.base64_images > MAX_IMAGES,
                     extracted_texts |-> << >>]
          /\ UNCHANGED <<result, state>>
     ELSE /\ pc' = "returned"
          /\ result' = [kind |-> "error_dict", keys |-> {"error"},
                        error |-> JStr(<<"No input provided. Please provide image_paths, base64_images, or ocr_texts.">>),
                        data |-> DNone]
          /\ UNCHANGED <<state, ocr>>
  /\ UNCHANGED <<args, calls, path, swallowed, environ, subs>>

\* the template process_multiple_images sends image idx of a batch of n with
role_prompt(idx, n) ==
  IF n = 1 THEN "first_prompt"
  ELSE IF idx = 0 THEN "first_prompt"
  ELSE IF idx = n - 1 THEN "last_prompt"
  ELSE "middle_prompt"

\* one turn of the loop of process_upsc_answer over image_paths:
\* process_image(path) reads the file (the paths of the model name readable
\* files) and asks the vision model with the basic template; a failed call
\* comes back as an error text
process_image ==
  /\ pc = "process_image"
  /\ Len(ocr.texts) < ocr.batch
  /\ \E reply \in ImageReplies :
       /\ calls' = Append(calls, [node |-> "ocr", prompt |-> "OCR_EXTRACTION_PROMPT",
                                  idx |-> Len(ocr.texts), pages |-> << >>,
                                  reply |-> reply])
       /\ ocr' = [ocr EXCEPT !.texts =
                    Append(@, IF reply.raises THEN <<Junk("MistralAI OCR Error", 19)>>
                              ELSE reply.text)]
  /\ pc' = IF Len(ocr.texts) + 1 = ocr.batch THEN "extracted" ELSE pc
  /\ UNCHANGED <<args, state, path, swallowed, result, environ, subs>>

\* one turn of the loop of process_multiple_images: the image is sent with
\* the template of its place in the batch; a long text is cut, a failed call
\* leaves the error text of the image
process_multiple_images ==
  /\ pc = "process_multiple_images"
  /\ Len(ocr.texts) < ocr.batch
  /\ \E reply \in OcrReplies :
       LET idx == Len(ocr.texts)
           extracted_text ==
             IF TextLen(reply.text) > OCR_CHAR_LIMIT
             THEN Truncate(reply.text, OCR_CHAR_LIMIT)
                  \o <<Junk("...[content truncated due to length]", 37)>>
             ELSE reply.text
       IN /\ calls' = Append(calls, [node |-> "ocr", prompt |-> role_prompt(idx, ocr.batch),
                                     idx |-> idx, pages |-> << >>, reply |-> reply])
          /\ ocr' = [ocr EXCEPT !.texts =
                       Append(@, IF reply.raises
                                 THEN <<[Junk("MistralAI OCR Error on image", 30)
                                           EXCEPT !.val = JInt(idx + 1)]>>
                                 ELSE extracted_text)]
  /\ pc' = IF Len(ocr.texts) + 1 = ocr.batch THEN "extracted" ELSE pc
  /\ UNCHANGED <<args, state, path, swallowed, result, environ, subs>>

\* process_upsc_answer after the extraction: the initial state enters the
\* graph with the extracted texts
process_upsc_answer_invoke ==
  /\ pc = "extracted"
  /\ pc' = "data_verification"
  /\ state' = initial_state(ocr.texts)
  /\ ocr' = [ocr EXCEPT !.extracted_texts = texts_after_check(ocr.texts)]
  /\ UNCHANGED <<args, calls, path, swallowed, result, environ, subs>>

\* the compiled graph invoked directly on an initial state
workflow_invoke ==
  /\ pc = "start"
  /\ args.entry = "workflow"
  /\ pc' = "data_verification"
  /\ state' = initial_state(args.ocr_texts)
  /\ UNCHANGED <<args, calls, path, swallowed, result, ocr, environ, subs>>

\* the value process_upsc_answer returns for the final state of the graph
returned_value(st) ==
  IF st.status = "formatted" /\ DTruthy(st.formatted_data)
  THEN [kind |-> "formatted_data",
        keys |-> DOMAIN st.formatted_data.d,
        error |-> DictGet(st.formatted_data.d, "error", JNull),
        data |-> st.formatted_data]
  ELSE [kind |-> "state", keys |-> StateKeys, error |-> st.error, data |-> st.formatted_data]

process_upsc_answer_return ==
  /\ pc = "end"
  /\ args.entry = "process_upsc_answer"
  /\ pc' = "returned"
  /\ result' = returned_value(state)
  /\ UNCHANGED <<args, state, calls, path, swallowed, ocr, environ, subs>>

\* workflow.invoke returns the final state
workflow_return ==
  /\ pc = "end"
  /\ args.entry = "workflow"
  /\ pc' = "returned"
  /\ result' = [kind |-> "state", keys |-> StateKeys, error |-> state.error,
                data |-> state.formatted_data]
  /\ UNCHANGED <<args, state, calls, path, swallowed, ocr, environ, subs>>

\* ------------------------------------------- summarize_images (main.py)
\* summarize_images up to its loop: no image returns the error dict
summarize_images_call ==
  /\ pc = "start"
  /\ args.entry = "summarize_images"
  /\ IF args.base64_images = 0
     THEN /\ pc' = "returned"
          /\ result' = [kind |-> "error_dict", keys |-> {"error"},
                        error |-> JStr(<<"No images provided">>), data |-> DNone]
          /\ ocr' = ocr
     ELSE /\ pc' = "summarize_images"
          /\ ocr' = [batch |-> args.base64_images, texts |-> << >>, warned |-> FALSE,
                     extracted_texts |-> << >>]
          /\ result' = result
  /\ UNCHANGED <<args, state, calls, path, swallowed, environ, subs>>

\* summarize_prompt testing for the last image before the first
summarize_prompt_last_first(idx, n) ==
  IF idx = n - 1 THEN "last_prompt"
  ELSE IF idx = 0 THEN "first_prompt"
  ELSE "middle_prompt"

\* the template summarize_images sends image idx of n images with
summarize_prompt(idx, n) ==
  IF idx = 0 THEN "first_prompt"
  ELSE IF idx = n - 1 THEN "last_prompt"
  ELSE "middle_prompt"

\* one turn of the loop of summarize_images: client.chat.complete on the
\* image; nothing catches what the call raises
summarize_images_complete ==
  /\ pc = "summarize_images"
  /\ Len(ocr.texts) < ocr.batch
  /\ \E reply \in SummarizeReplies :
       /\ calls' = Append(calls, [node |-> "summarize",
                                  prompt |-> summarize_prompt(Len(ocr.texts), ocr.batch),
                                  idx |-> Len(ocr.texts), pages |-> << >>, reply |-> reply])
       /\ IF reply.raises
          THEN pc' = "raised" /\ result' = Raised /\ ocr' = ocr
          ELSE /\ ocr' = [ocr EXCEPT !.texts = Append(@, reply.text)]
               /\ UNCHANGED <<pc, result>>
  /\ UNCHANGED <<args, state, path, swallowed, environ, subs>>

\* summarize_images after its loop: merge_json_blocks(outputs) of
\* combine_answer, whose result is returned and whose exception leaves
summarize_images_return ==
  /\ pc = "summarize_images"
  /\ Len(ocr.texts) = ocr.batch
  /\ LET merge_output == combine_merge_json_blocks(ocr.texts)
     IN IF merge_output.ok
        THEN /\ pc' = "returned"
             /\ result' = [kind |-> "merge_output", keys |-> DOMAIN merge_output.d,
                           error |-> JNull, data |-> DDict(merge_output.d)]
        ELSE /\ pc' = "raised"
             /\ result' = [Raised EXCEPT !.error = JStr(<<merge_output.exc>>)]
  /\ UNCHANGED <<args, state, calls, path, swallowed, ocr, environ, subs>>

Next ==
  \/ process_upsc_answer_call
  \/ process_image
  \/ process_multiple_images
  \/ process_upsc_answer_invoke
  \/ summarize_images_call
  \/ summarize_images_complete
  \/ summarize_images_return
  \/ workflow_invoke
  \/ data_verification_agent
  \/ route_after_verification
  \/ data_formatter_agent
  \/ route_after_formatter
  \/ process_upsc_answer_return
  \/ workflow_return

Spec == Init /\ [][Next]_vars

\* ------------------------------------------------- the clients' API keys
\* Submissions that run side by side in one process. Each builds its vision
\* client (OCRProcessor.__init__) and then its chat model (init_llm); both
\* write the api_key they are given into os.environ and read the key back
\* from os.environ, two statements between which another submission can run.
ApiKeys == {NoKey, "key_a", "key_b"}
EnvKeys == {NoKey, "key_env"}

InitKeys ==
  /\ pc = "start"
  /\ args = [entry |-> "process_upsc_answer", ocr_texts |-> <<Page_complete>>,
             image_paths |-> 0, base64_images |-> 0]
  /\ state = initial_state(<< >>)
  /\ calls = << >>
  /\ path = "none"
  /\ swallowed = {}
  /\ result = NoResult
  /\ ocr = NoOcr
  /\ environ \in EnvKeys
  /\ subs \in [1..MaxSubs -> [api_key : ApiKeys, at : {"OCRProcessor"},
                              ocr_key : {"unbuilt"}, llm_key : {"unbuilt"}]]

\* if api_key: os.environ["MISTRAL_API_KEY"] = api_key   (OCRProcessor.__init__)
OCRProcessor_setenv ==
  \E p \in DOMAIN subs :
    /\ subs[p].at = "OCRProcessor"
    /\ environ' = IF subs[p].api_key # NoKey THEN subs[p].api_key ELSE environ
    /\ subs' = [subs EXCEPT ![p].at = "OCRProcessor_client"]
    /\ UNCHANGED <<pc, args, state, calls, path, swallowed, result, ocr>>

\* self.mistral_client = ChatMistralAI(api_key=os.environ.get("MISTRAL_API_KEY"))
OCRProcessor_client ==
  \E p \in DOMAIN subs :
    /\ subs[p].at = "OCRProcessor_client"
    /\ subs' = [subs EXCEPT ![p].ocr_key = environ, ![p].at = "init_llm"]
    /\ UNCHANGED <<pc, args, state, calls, path, swallowed, result, ocr, environ>>

\* if api_key: os.environ["MISTRAL_API_KEY"] = api_key   (init_llm)
init_llm_setenv ==
  \E p \in DOMAIN subs :
    /\ subs[p].at = "init_llm"
    /\ environ' = IF subs[p].api_key # NoKey THEN subs[p].api_key ELSE environ
    /\ subs' = [subs EXCEPT ![p].at = "init_llm_client"]
    /\ UNCHANGED <<pc, args, state, calls, path, swallowed, result, ocr>>

\* return ChatMistralAI(api_key=os.environ.get("MISTRAL_API_KEY"))
init_llm_client ==
  \E p \in DOMAIN subs :
    /\ subs[p].at = "init_llm_client"
    /\ subs' = [subs EXCEPT ![p].llm_key = environ, ![p].at = "built"]
    /\ UNCHANGED <<pc, args, state, calls, path, swallowed, result, ocr, environ>>

NextKeys ==
  \/ OCRProcessor_setenv
  \/ OCRProcessor_client
  \/ init_llm_setenv
  \/ init_llm_client

SpecKeys == InitKeys /\ [][NextKeys]_vars

\* ----------------------------------------------------------------- claims
BothTrue(st) == Truthy(st.is_relevant) /\ Truthy(st.has_valid_format)
VerificationReturned == state.status # "initialized"
FormatterEntered == path # "none"
FormatterReturned == path # "none" /\ pc \in {"decide_after_formatter", "end", "returned"}
RunEnded == pc = "end" \/ (pc = "returned" /\ result.kind \in {"state", "formatted_data"})
FormatterCalls == {i \in 1..Len(calls) : calls[i].node = "data_formatter"}
VerificationCalls == {i \in 1..Len(calls) : calls[i].node = "data_verification"}
VerificationReply == calls[CHOOSE i \in VerificationCalls : TRUE].reply
NoCallRaised == \A i \in 1..Len(calls) : ~calls[i].reply.raises
TerminalStatus ==
  {"formatted", "failed_verification", "failed_formatting", "skipped_formatting"}

\* the reason the verification stage records for a reply it does not accept
RecordedReason ==
  IF VerificationCalls = {} THEN JStr(<<"No OCR text provided.">>)
  ELSE LET reply == VerificationReply
           json_match == re_search_braces(reply.text)
           loaded == json_loads(json_match.group)
       IN IF reply.isstr /\ json_match.found /\ ~loaded.ok
          THEN JStr(<<"Verification processing error: ", loaded.msg>>)
          ELSE DictGet(verification_result_of(reply), "reason",
                       JStr(<<"Failed verification check">>))

\* C1: once the verification stage has returned, the formatting stage is
\* entered (and the formatting model call issued) only if is_relevant and
\* has_valid_format both hold (as the code tests them, by truth value);
\* otherwise the run stops with status failed_verification and error set to
\* the recorded reason, and the formatting stage is never entered.
C1_VerificationGate ==
  /\ (pc = "data_formatter" \/ FormatterEntered \/ FormatterCalls # {})
       => BothTrue(state) /\ VerificationReturned
  /\ (VerificationReturned /\ ~BothTrue(state))
       => /\ state.status = "failed_verification"
          /\ state.error = RecordedReason
          /\ pc \in {"decide_after_verification", "end", "returned"}
          /\ path = "none"
          /\ FormatterCalls = {}

\* a run that verification rejected on the model's judgment has ended
C1_Witness ==
  /\ pc = "returned"
  /\ state.status = "failed_verification"
  /\ Len(calls) = 1
  /\ state.error = JStr(<<"not an answer">>)
  /\ path = "none"

\* C2: no exception leaves the workflow, whatever the external model call
\* does: the run never ends by raising.
C2_NoExceptionEscapes == pc # "raised" /\ result.kind # "exception"

\* C3: the workflow run on an empty ocr_texts ends with status
\* failed_verification, error "No OCR text provided.", is_relevant and
\* has_valid_format false, and issues no external model call at any point.
C3_EmptyInput ==
  (args.entry = "workflow" /\ args.ocr_texts = << >>)
    => /\ calls = << >>
       /\ pc \notin {"data_formatter", "decide_after_formatter", "raised"}
       /\ pc \in {"decide_after_verification", "end", "returned"}
            => /\ state.status = "failed_verification"
               /\ state.error = JStr(<<"No OCR text provided.">>)
               /\ state.is_relevant = JBool(FALSE)
               /\ state.has_valid_format = JBool(FALSE)
               /\ state.formatted_data = DNone

\* the workflow has run to its end on an empty ocr_texts
C3_Witness ==
  /\ pc = "returned"
  /\ args.entry = "workflow"
  /\ args.ocr_texts = << >>
  /\ result.kind = "state"
  /\ state.status = "failed_verification"

\* the position of a node on the way from the entry to the return
Rank(node) ==
  CASE node = "start" -> 0
    [] node \in {"process_image", "process_multiple_images", "summarize_images"} -> 1
    [] node = "extracted" -> 2
    [] node = "data_verification" -> 3
    [] node = "decide_after_verification" -> 4
    [] node = "data_formatter" -> 5
    [] node = "decide_after_formatter" -> 6
    [] node = "end" -> 7
    [] OTHER -> 8

Nodes ==
  {"start", "process_image", "process_multiple_images", "extracted", "summarize_images",
   "data_verification", "decide_after_verification", "data_formatter",
   "decide_after_formatter", "end", "returned", "raised"}

\* C4: every run of the workflow whose model calls return reaches the end
\* node (the run is always at a node of the graph, every step moves forward
\* or extracts one more image of the batch, and only a raising model call
\* makes the run raise);
\* the status at the end is one of formatted, failed_verification,
\* failed_formatting, skipped_formatting (never initialized or verified), and
\* the formatting stage never returns with status verified.
C4_TerminalStatus ==
  /\ [](RunEnded => state.status \in TerminalStatus)
  /\ [](pc = "decide_after_formatter" => state.status # "verified")
  /\ []((NoCallRaised /\ args.entry # "summarize_images") => pc # "raised")
  /\ [](pc \in Nodes)
  /\ [][\/ Rank(pc') > Rank(pc)
        \/ pc' = pc /\ Len(ocr'.texts) > Len(ocr.texts) /\ Len(ocr'.texts) <= ocr.batch]_vars

\* a run whose formatting model call returned an unusable reply has ended
C4_Witness ==
  /\ pc = "returned"
  /\ NoCallRaised
  /\ path = "model"
  /\ state.status = "failed_formatting"

\* a verification reply the code can read as the two booleans
Interpretable(reply) ==
  LET json_match == re_search_braces(reply.text)
      loaded == json_loads(json_match.group)
  IN /\ reply.isstr /\ json_match.found /\ loaded.ok
     /\ {"is_relevant", "has_valid_format"} \subseteq DOMAIN loaded.doc.d
     /\ loaded.doc.d["is_relevant"].t = "bool"
     /\ loaded.doc.d["has_valid_format"].t = "bool"

Affirmative(reply) ==
  /\ Interpretable(reply)
  /\ verification_result_of(reply)["is_relevant"] = JBool(TRUE)
  /\ verification_result_of(reply)["has_valid_format"] = JBool(TRUE)

\* C5: verification fails closed: status verified is reached only on a reply
\* that affirmatively states both booleans as true, and a reply that cannot
\* be read as the two booleans yields is_relevant = false, has_valid_format =
\* false and status failed_verification.
C5_FailsClosed ==
  (VerificationReturned /\ VerificationCalls # {})
    => /\ (state.status \notin {"failed_verification"}) => Affirmative(VerificationReply)
       /\ ~Interpretable(VerificationReply)
            => /\ state.is_relevant = JBool(FALSE)
               /\ state.has_valid_format = JBool(FALSE)

\* the keys of the members written in a text
FieldKeys(text) == {text[i].key : i \in {j \in 1..Len(text) : text[j].k = "field"}}

\* the record a page's raw text parses into directly
DirectRecord(text) == json_loads(re_search_braces(text).group)

\* C6: with exactly one page, verification passed and the page's text parsing
\* directly into a record with question, answer and feedback, the formatting
\* stage issues no model call, sets formatted_data to exactly that record (no
\* defaults added) and ends with status formatted.
C6_SinglePageShortcut ==
  (/\ FormatterReturned
   /\ Len(state.ocr_texts) = 1
   /\ re_search_braces(state.ocr_texts[1]).found
   /\ DirectRecord(state.ocr_texts[1]).ok
   /\ required_fields \subseteq DOMAIN DirectRecord(state.ocr_texts[1]).doc.d)
    => /\ FormatterCalls = {}
       /\ Cardinality(VerificationCalls) = 1
       /\ path = "shortcut"
       /\ state.status = "formatted"
       /\ state.formatted_data.t = "dict"
       /\ DOMAIN state.formatted_data.d = FieldKeys(state.ocr_texts[1])
       /\ \A i \in 1..Len(state.ocr_texts[1]) :
            state.ocr_texts[1][i].k = "field"
              => state.formatted_data.d[state.ocr_texts[1][i].key] = state.ocr_texts[1][i].val

\* the shortcut was taken on a page that has no word_limit or maximum_marks
C6_Witness ==
  /\ pc = "returned"
  /\ path = "shortcut"
  /\ state.ocr_texts = <<Page_complete>>
  /\ result.kind = "formatted_data"
  /\ result.keys = required_fields

\* the reply of the formatting model call, and whether the formatting stage
\* can decode and validate it
FormatterReply == calls[CHOOSE i \in FormatterCalls : TRUE].reply
ReplyDecodes(reply) ==
  LET json_match == re_search_braces(reply.text)
      loaded == IF json_match.found THEN json_loads(json_match.group)
                ELSE json_loads(reply.text)
  IN reply.isstr /\ loaded.ok /\ with_defaults(loaded.doc).ok
ReplyMessage(reply) ==
  LET json_match == re_search_braces(reply.text)
      loaded == IF json_match.found THEN json_loads(json_match.group)
                ELSE json_loads(reply.text)
  IN IF ~reply.isstr THEN "Invalid LLM response format"
     ELSE IF ~loaded.ok THEN loaded.msg ELSE with_defaults(loaded.doc).msg

\* C7 as stated: whenever an exception arises while parsing or merging the
\* pages in the formatting stage, the run ends with status failed_formatting,
\* formatted_data null and error holding the exception's message; a run in
\* which the merge raised never ends with status formatted.
C7_Original ==
  (RunEnded /\ swallowed # {})
    => /\ state.status = "failed_formatting"
       /\ state.formatted_data = DNone
       /\ state.error.t = "str"

\* C7 amended: an exception raised while parsing the single page or merging
\* the pages is passed over and the formatting model call is issued; the run
\* ends with status failed_formatting, formatted_data null and error
\* "Formatting error: <message>" exactly when decoding or validating the
\* model's reply raises, and with status formatted and the decoded record
\* otherwise, also when the merge had raised.
C7_FallbackDecides ==
  /\ swallowed # {} => path = "model" /\ FormatterCalls # {}
  /\ state.status = "failed_formatting" => path = "model"
  /\ (FormatterReturned /\ path = "model")
       => IF ReplyDecodes(FormatterReply)
          THEN /\ state.status = "formatted"
               /\ state.formatted_data # DNone
               /\ state.error = JNull
          ELSE /\ state.status = "failed_formatting"
               /\ state.formatted_data = DNone
               /\ state.error = JStr(<<"Formatting error: ", ReplyMessage(FormatterReply)>>)

\* the merge raised, the model was asked, and the run ended formatted
C7_Witness ==
  /\ pc = "returned"
  /\ "merge" \in swallowed
  /\ state.status = "formatted"
  /\ state.ocr_texts[1] = Page_bad_answer

\* C8: every value process_upsc_answer returns is either the formatted
\* record of a run that ended with status formatted, or a diagnostic object
\* holding status, error and ocr_texts, with a non-null error.
C8_CallerFacingResult ==
  (pc = "returned" /\ args.entry = "process_upsc_answer")
    => \/ result.kind = "formatted_data" /\ state.status = "formatted"
       \/ /\ {"status", "error", "ocr_texts"} \subseteq result.keys
          /\ result.error # JNull

\* the pages that define a key non-emptily, in the json_results of a merge
Defining(json_results, key) ==
  {i \in 1..Len(json_results) :
     key \in DOMAIN json_results[i] /\ Truthy(json_results[i][key])}
Lowest(S) == CHOOSE i \in S : \A j \in S : i <= j
Highest(S) == CHOOSE i \in S : \A j \in S : j <= i

\* C9: the merged record takes question, word_limit and maximum_marks each
\* from the first record, scanning forward, that defines the field
\* non-emptily, also when that is not the first page.
C9_FirstFoundWins ==
  (FormatterReturned /\ path = "merge")
    => LET json_results == json_results_of(state.ocr_texts)
       IN \A key \in {"question", "word_limit", "maximum_marks"} :
            Defining(json_results, key) # {}
              => /\ key \in DOMAIN state.formatted_data.d
                 /\ state.formatted_data.d[key]
                      = json_results[Lowest(Defining(json_results, key))][key]

\* C10: the merged record takes total_marks from the last record, scanning
\* backward, that has a non-empty total_marks; a last page without one does
\* not hide an earlier page's value.
C10_LastFoundWins ==
  (FormatterReturned /\ path = "merge")
    => LET json_results == json_results_of(state.ocr_texts)
       IN Defining(json_results, "total_marks") # {}
            => /\ "total_marks" \in DOMAIN state.formatted_data.d
               /\ state.formatted_data.d["total_marks"]
                    = json_results[Highest(Defining(json_results, "total_marks"))]["total_marks"]

\* the two places a merged record comes from: the multi-page merge of the
\* formatting stage, and summarize_images
MergedByWorkflow == FormatterReturned /\ path = "merge"
MergedBySummarize == pc = "returned" /\ result.kind = "merge_output"

\* the records of the pages that parsed, in page order
PageRecords(raw_inputs) ==
  LET parsed == [i \in 1..Len(raw_inputs) |-> parse_json_block(raw_inputs[i])]
      records == SelectSeq(parsed, LAMBDA p : p.tier # 0 /\ p.doc.t = "dict")
  IN [i \in 1..Len(records) |-> records[i].doc.d]

\* a page contributes to the merged answer when its answer is a non-empty text
Contributes(record) ==
  "answer" \in DOMAIN record /\ record["answer"].t = "str" /\ record["answer"].s # << >>

RECURSIVE ConcatAnswers(_)
\* the answers of the contributing pages, in page order, with the separator
\* between consecutive ones
ConcatAnswers(records) ==
  IF records = << >> THEN << >>
  ELSE LET rest == ConcatAnswers(Tail(records))
       IN IF ~Contributes(Head(records)) THEN rest
          ELSE Head(records)["answer"].s \o (IF rest = << >> THEN << >> ELSE <<NEXT_PAGE>> \o rest)

\* C11: the merged answer is one text value, the pages' answers concatenated
\* in page order with the separator "--- NEXT PAGE ---" between consecutive
\* contributing pages and nowhere else.
C11_AnswerConcatenation ==
  /\ MergedByWorkflow
       => state.formatted_data.d["answer"]
            = JStr(ConcatAnswers(json_results_of(state.ocr_texts)))
  /\ MergedBySummarize
       => result.data.d["answer"] = JStr(ConcatAnswers(PageRecords(ocr.texts)))

\* the feedback sequence of a page's record
PageFeedback(record) ==
  IF "feedback" \in DOMAIN record /\ record["feedback"].t = "list"
  THEN record["feedback"].l ELSE << >>

RECURSIVE FeedbackOffset(_, _)
\* the number of feedback pairs of the first i pages
FeedbackOffset(records, i) ==
  IF i = 0 THEN 0 ELSE FeedbackOffset(records, i - 1) + Len(PageFeedback(records[i]))

\* merged is the pages' feedback sequences laid end to end
IsFlattened(merged, records) ==
  /\ merged.t = "list"
  /\ Len(merged.l) = FeedbackOffset(records, Len(records))
  /\ \A i \in 1..Len(records) : \A k \in 1..Len(PageFeedback(records[i])) :
       merged.l[FeedbackOffset(records, i - 1) + k] = PageFeedback(records[i])[k]

\* C12: the merged feedback is the pages' feedback sequences concatenated in
\* page order: its length is the sum of the pages' lengths, every pair keeps
\* its place, and a pair that occurs on several pages occurs as often in the
\* result.
C12_FeedbackFlattened ==
  /\ MergedByWorkflow
       => IsFlattened(state.formatted_data.d["feedback"], json_results_of(state.ocr_texts))
  /\ MergedBySummarize
       => IsFlattened(result.data.d["feedback"], PageRecords(ocr.texts))

\* two pages with the same feedback pair were merged, and the pair is there
\* twice
C12_Witness ==
  /\ pc = "returned"
  /\ MergedByWorkflow
  /\ state.ocr_texts = <<Page_complete, Page_complete>>
  /\ state.formatted_data.d["feedback"] = JList(<< <<"A", "b">>, <<"A", "b">> >>)

\* C13: in a merged record no key is present with its empty default ("", 0,
\* [] or null): a field that no page supplied non-emptily is absent.
C13_NoEmptyFields ==
  /\ MergedByWorkflow
       => \A key \in DOMAIN state.formatted_data.d : Truthy(state.formatted_data.d[key])
  /\ MergedBySummarize
       => \A key \in DOMAIN result.data.d : Truthy(result.data.d[key])

\* C14: the merge is total: whatever the pages are, also when every page
\* failed to parse, it returns a record and never raises.
C14_MergeTotal ==
  /\ "merge" \notin swallowed
  /\ (args.entry = "summarize_images" /\ NoCallRaised) => pc # "raised"

\* a raw text without the markdown fence it may be wrapped in
Unwrapped(text) ==
  IF Len(text) >= 2 /\ text[1].k = "fence" /\ text[Len(text)].k = "fence"
  THEN SubSeq(text, 2, Len(text) - 1) ELSE text

\* the text is a JSON object (the empty one included) or a JSON array
ValidJson(text) ==
  LET body == Unwrapped(text)
  IN \/ /\ Len(body) >= 2 /\ body[1].k = "lb" /\ body[Len(body)].k = "rb"
        /\ \A i \in 2..(Len(body) - 1) : body[i].k = "field"
     \/ Len(body) = 1 /\ body[1].k = "arr"

\* the structure a valid JSON text decodes to
Decoded(text) ==
  LET body == Unwrapped(text)
  IN IF body[1].k = "arr" THEN DOther(body[1].val)
     ELSE DDict(MembersToDict(SubSeq(body, 2, Len(body) - 1)))

\* C15: every output that is valid JSON, the empty object included, with or
\* without a markdown fence around it, is parsed by the first tier into
\* exactly the structure it decodes to, and the page is among the blocks
\* that are merged.
C15_TierOneRoundTrip ==
  (args.entry = "summarize_images" /\ pc \in {"returned", "raised"} /\ NoCallRaised)
    => \A i \in 1..Len(ocr.texts) :
         ValidJson(ocr.texts[i])
           => /\ parse_json_block(ocr.texts[i]) = [tier |-> 1, doc |-> Decoded(ocr.texts[i])]
              /\ \E j \in 1..Len(parsed_blocks_of(ocr.texts)) :
                   parsed_blocks_of(ocr.texts)[j] = Decoded(ocr.texts[i])

\* the extraction calls issued so far, and the call made for image idx
ExtractionCalls == {i \in 1..Len(calls) : calls[i].node \in {"ocr", "summarize"}}
ExtractionCall(idx) == calls[CHOOSE i \in ExtractionCalls : calls[i].idx = idx]
ErrorTagged(text) ==
  Len(text) = 1 /\ text[1].k = "junk"
  /\ text[1].key \in {"MistralAI OCR Error", "MistralAI OCR Error on image", "OCR Error"}

\* C16: a failed external call on one image of a batch does not abort the
\* batch: the failure never leaves as an exception, there is one text per
\* processed image, in input order, the failed image's text is error-tagged
\* and the others hold what the model extracted.
C16_FailedPageIsolated ==
  /\ pc = "raised" => Len(calls) \notin ExtractionCalls
  /\ (ocr.batch > 0 /\ pc \notin {"start", "process_image", "process_multiple_images",
                                   "summarize_images", "raised"})
       => /\ Len(ocr.texts) = ocr.batch
          /\ \A idx \in 0..(ocr.batch - 1) :
               IF ExtractionCall(idx).reply.raises
               THEN ErrorTagged(ocr.texts[idx + 1])
               ELSE /\ ~ErrorTagged(ocr.texts[idx + 1])
                    /\ ocr.texts[idx + 1][1] = ExtractionCall(idx).reply.text[1]

\* the number of images the submission came with
ImagesGiven == IF args.image_paths > 0 THEN args.image_paths ELSE args.base64_images
ExtractionDone ==
  ocr.batch > 0 /\ pc \notin {"start", "process_image", "process_multiple_images",
                              "summarize_images", "raised"}

\* C17: on every image entry path at most five images are sent to the model;
\* of more than five exactly the first five are processed, the rest is
\* dropped and a warning is emitted.
C17_AtMostFiveImages ==
  /\ Cardinality(ExtractionCalls) <= MAX_IMAGES
  /\ (ExtractionDone /\ ImagesGiven > MAX_IMAGES)
       => /\ {calls[i].idx : i \in ExtractionCalls} = 0..(MAX_IMAGES - 1)
          /\ Len(ocr.texts) = MAX_IMAGES
          /\ ocr.warned

\* C18: submissions that run side by side share no mutable state: each that
\* passes an api_key builds its clients with that key, and one that passes
\* none is not affected by the key of another.
C18_NoSharedKey ==
  \A p \in DOMAIN subs :
    LET built == {subs[p].ocr_key, subs[p].llm_key} \ {"unbuilt"}
        others == {subs[q].api_key : q \in DOMAIN subs \ {p}} \ {NoKey}
    IN IF subs[p].api_key # NoKey
       THEN built \subseteq {subs[p].api_key}
       ELSE built \cap others = {}

RECURSIVE TotalChars(_)
\* the total number of characters of the pages
TotalChars(texts) == IF texts = << >> THEN 0 ELSE TextLen(Head(texts)) + TotalChars(Tail(texts))
EstimatedTokens == TotalChars(state.ocr_texts) \div 4
\* the pages the verification call was sent
VerificationPages == calls[CHOOSE i \in VerificationCalls : TRUE].pages
\* the first CHAR_CAP characters of a page
Cut(text) == Truncate(text, CHAR_CAP)

\* C19: when the estimate exceeds TOKEN_LIMIT and there are more than 3
\* pages, the verification call is sent exactly three pages, those at
\* indices 0, n div 2 and n - 1 (counted from 0) in that order, which are
\* distinct and increasing.
C19_FirstMiddleLast ==
  (VerificationCalls # {} /\ EstimatedTokens > TOKEN_LIMIT /\ Len(state.ocr_texts) > 3)
    => LET n == Len(state.ocr_texts)
       IN /\ Len(VerificationPages) = 3
          /\ VerificationPages = <<Cut(state.ocr_texts[0 + 1]),
                                   Cut(state.ocr_texts[(n \div 2) + 1]),
                                   Cut(state.ocr_texts[(n - 1) + 1])>>
          /\ 0 < n \div 2 /\ n \div 2 < n - 1

\* five pages over the estimate, the middle one unlike its neighbours, have
\* been verified
C19_Witness ==
  /\ pc = "returned"
  /\ VerificationCalls # {}
  /\ state.ocr_texts = <<Page_huge, Page_huge, Page_long, Page_huge, Page_huge>>
  /\ Len(VerificationPages) = 3
  /\ VerificationPages[2] = Cut(Page_long)

\* C20: the verification input is reduced exactly when the estimate exceeds
\* TOKEN_LIMIT: at or below it (exactly TOKEN_LIMIT included) every page
\* reaches the model with its full text; above it, with at most 3 pages, all
\* pages are kept and each is cut to its first CHAR_CAP characters.
C20_ReducedOnlyAboveLimit ==
  VerificationCalls # {}
    => IF EstimatedTokens <= TOKEN_LIMIT
       THEN VerificationPages = state.ocr_texts
       ELSE Len(state.ocr_texts) <= 3
              => VerificationPages = [i \in 1..Len(state.ocr_texts) |-> Cut(state.ocr_texts[i])]

\* the verification stage returned without a hard error: its model call
\* returned and nothing raised while the reply was read
NoHardError ==
  /\ VerificationCalls # {}
  /\ VerificationReturned
  /\ LET reply == VerificationReply
         json_match == re_search_braces(reply.text)
     IN ~(reply.isstr /\ json_match.found /\ ~json_loads(json_match.group).ok)

\* C21 as stated, for the runs the transition is described for: a run whose
\* verification ended without a hard error and with one of the two booleans
\* failed enters the formatting stage and ends with status
\* skipped_formatting.
C21_Original ==
  (RunEnded /\ NoHardError /\ ~BothTrue(state))
    => FormatterEntered /\ state.status = "skipped_formatting"

\* C21 amended: no run of the workflow reaches status skipped_formatting:
\* the formatting stage is entered only with status verified, where
\* is_relevant and has_valid_format both pass, so its skip branch is never
\* taken; a run whose verification ended with a failed boolean ends with
\* status failed_verification without entering the formatting stage.
C21_SkippedUnreachable ==
  /\ state.status # "skipped_formatting"
  /\ path # "skipped"
  /\ pc = "data_formatter" => state.status = "verified" /\ BothTrue(state)
  /\ (RunEnded /\ NoHardError /\ ~BothTrue(state))
       => state.status = "failed_verification" /\ ~FormatterEntered

\* verification read a reply with is_relevant true and has_valid_format
\* false, no hard error, and the run has ended
C21_Witness ==
  /\ pc = "returned"
  /\ NoHardError
  /\ state.is_relevant = JBool(TRUE)
  /\ state.has_valid_format = JBool(FALSE)
  /\ state.status = "failed_verification"
  /\ path = "none"

\* the pages of the formatting stage whose text yielded a JSON object
PageParsed(text) ==
  re_search_braces(text).found /\ json_loads(re_search_braces(text).group).ok

\* C22: a page whose parse did not succeed contributes nothing to the merged
\* record: the merged record equals the merged record of the same pages with
\* the unparsed ones removed.
C22_UnparsedContributesNothing ==
  /\ MergedByWorkflow
       => state.formatted_data.d
            = merge_json_blocks(json_results_of(SelectSeq(state.ocr_texts, PageParsed))).d
  /\ MergedBySummarize
       => result.data.d
            = combine_merge_json_blocks(
                SelectSeq(ocr.texts, LAMBDA text : parse_json_block(text).tier # 0)).d

\* the type of a field of a result record
FieldType(key) ==
  CASE key \in {"question", "answer"} -> "str"
    [] key = "feedback" -> "list"
    [] OTHER -> "int"

TypedFields == {UPSC_DATA_FORMAT[i] : i \in 1..Len(UPSC_DATA_FORMAT)}

\* the fields the pages (or the model's reply) supplied to the record the
\* formatting stage produced
SuppliedToFormatter ==
  CASE path = "model" ->
         LET reply == FormatterReply
             json_match == re_search_braces(reply.text)
             loaded == IF json_match.found THEN json_loads(json_match.group)
                       ELSE json_loads(reply.text)
         IN DOMAIN loaded.doc.d
    [] path = "merge" ->
         UNION {DOMAIN json_results_of(state.ocr_texts)[i] : i \in 1..Len(state.ocr_texts)}
    [] OTHER -> DOMAIN DirectRecord(state.ocr_texts[1]).doc.d

\* the fields the parsed pages supplied to the record summarize_images returns
SuppliedToSummarize ==
  UNION {DOMAIN parsed_blocks_of(ocr.texts)[i].d : i \in 1..Len(parsed_blocks_of(ocr.texts))}

\* C23: in every result record a field that no page (or the model) supplied
\* is absent or holds a value of the field's own type: word_limit and
\* maximum_marks integers, question and answer texts, feedback a list.
C23_TypedDefaults ==
  /\ (FormatterReturned /\ state.status = "formatted" /\ state.formatted_data.t = "dict")
       => \A key \in (TypedFields \cap DOMAIN state.formatted_data.d) \ SuppliedToFormatter :
            state.formatted_data.d[key].t = FieldType(key)
  /\ MergedBySummarize
       => \A key \in (TypedFields \cap DOMAIN result.data.d) \ SuppliedToSummarize :
            result.data.d[key].t = FieldType(key)

\* the text gets to the third tier: it is not JSON, also after the quote
\* repair
ReachesTierThree(clean_str) ==
  ~json_loads(clean_str).ok /\ ~json_loads(fix_quotes(clean_str)).ok

\* the pattern of the field, taken alone, finds the field in the text
PatternFinds(clean_str, key) ==
  CASE key = "answer" -> regex_answer(clean_str).found
    [] key \in {"question", "total_marks"} ->
         \E i \in 1..Len(clean_str) :
           clean_str[i].k = "field" /\ clean_str[i].key = key /\ clean_str[i].val.t = "str"
    [] key \in {"word_limit", "maximum_marks"} ->
         \E i \in 1..Len(clean_str) :
           /\ clean_str[i].k = "field" /\ clean_str[i].key = key
           /\ clean_str[i].val.t = "int" /\ clean_str[i].val.n >= 0
    [] OTHER ->
         \E i \in 1..Len(clean_str) :
           /\ clean_str[i].key = key
           /\ \/ clean_str[i].k = "deepfield"
              \/ clean_str[i].k = "field" /\ clean_str[i].val.t = "list"

RecordFields == {"question", "answer", "word_limit", "maximum_marks", "total_marks", "feedback"}

\* the success rule of the third tier on one text: success exactly when
\* question or answer is found, None otherwise, and every field recovered
\* exactly when its own pattern finds it
TierThreeRule(text) ==
  LET clean_str == clean_markdown_json(text)
      parsed == parse_json_block(text)
  IN /\ parsed.tier = 3
          <=> (PatternFinds(clean_str, "question") \/ PatternFinds(clean_str, "answer"))
     /\ parsed.tier # 3 => parsed = [tier |-> 0, doc |-> DNone]
     /\ parsed.tier = 3
          => /\ parsed.doc.t = "dict"
             /\ \A key \in RecordFields :
                  key \in DOMAIN parsed.doc.d <=> PatternFinds(clean_str, key)

AnswerWritten(clean_str) == FirstMember(clean_str, "answer", "str")

\* C25: for every text that is not JSON, also after the quote repair, and
\* holds "answer": "..." somewhere, the end of the text included, the third
\* tier recovers the answer and the parse succeeds.
C25_AnswerRecovered ==
  args.entry = "summarize_images"
    => \A i \in 1..Len(ocr.texts) :
         LET clean_str == clean_markdown_json(ocr.texts[i])
             parsed == parse_json_block(ocr.texts[i])
         IN (ReachesTierThree(clean_str) /\ AnswerWritten(clean_str) # 0)
              => /\ parsed.tier = 3
                 /\ parsed.doc.t = "dict"
                 /\ "answer" \in DOMAIN parsed.doc.d
                 /\ parsed.doc.d["answer"] = clean_str[AnswerWritten(clean_str)].val

\* the calls that send an image with a page-role template: those of
\* process_multiple_images and of summarize_images
RoleCalls ==
  {i \in ExtractionCalls : calls[i].prompt # "OCR_EXTRACTION_PROMPT"}
\* the batch has been sent whole
BatchSent == Cardinality(RoleCalls) = ocr.batch

\* C26: in a batch of n processed images the image at index 0 is sent with
\* the first-page template, the one at index n - 1 (n >= 2) with the
\* last-page template, every other with the middle-page template, a single
\* image with the first-page template; a batch sent whole has exactly one
\* first-page call and, for n >= 2, exactly one last-page call; the rule is
\* the same for process_multiple_images and summarize_images.
C26_RoleTemplates ==
  /\ \A i \in RoleCalls :
       /\ calls[i].node \in {"ocr", "summarize"}
       /\ calls[i].idx \in 0..(ocr.batch - 1)
       /\ calls[i].prompt =
            CASE calls[i].idx = 0 -> "first_prompt"
              [] calls[i].idx # 0 /\ calls[i].idx = ocr.batch - 1 -> "last_prompt"
              [] OTHER -> "middle_prompt"
       /\ \A j \in RoleCalls : calls[j].idx = calls[i].idx => j = i
  /\ (RoleCalls # {} /\ BatchSent)
       => /\ Cardinality({i \in RoleCalls : calls[i].prompt = "first_prompt"}) = 1
          /\ Cardinality({i \in RoleCalls : calls[i].prompt = "last_prompt"})
               = IF ocr.batch >= 2 THEN 1 ELSE 0
          /\ Cardinality({i \in RoleCalls : calls[i].prompt = "middle_prompt"})
               = IF ocr.batch >= 2 THEN ocr.batch - 2 ELSE 0

\* summarize_images has sent three images, one with each template
C26_Witness ==
  /\ args.entry = "summarize_images"
  /\ pc = "returned"
  /\ ocr.batch = 3
  /\ [i \in 1..3 |-> calls[i].prompt] = <<"first_prompt", "middle_prompt", "last_prompt">>

\* C27: at every point of a workflow run formatted_data is non-null exactly
\* when status = formatted, and a run with status formatted carries a
\* record: a mapping, never a list, a number or null.
C27_DataIffFormatted ==
  /\ state.formatted_data # DNone <=> state.status = "formatted"
  /\ state.status = "formatted" => state.formatted_data.t = "dict"

\* C28: with several pages the direct merge is taken only if every page,
\* the one at index 0 included, yielded a parsed JSON object; when a page
\* failed to parse its placeholder is never merged and the formatting model
\* call is made.
C28_MergeOnlyParsedPages ==
  /\ path = "merge"
       => \A i \in 1..Len(state.ocr_texts) : PageParsed(state.ocr_texts[i])
  /\ (FormatterReturned /\ Len(state.ocr_texts) > 1
      /\ \E i \in 1..Len(state.ocr_texts) : ~PageParsed(state.ocr_texts[i]))
       => path = "model" /\ FormatterCalls # {}

\* the pages the run was started on
SubmittedTexts ==
  IF args.entry = "workflow" \/ args.ocr_texts # << >> THEN args.ocr_texts ELSE ocr.texts

\* C29: the verification stage changes only is_relevant, has_valid_format,
\* error and status: ocr_texts, formatted_data and messages are as before,
\* also when the stage drops or cuts pages for its own model call, so the
\* formatting stage works on every page the run was started on, in full.
C29_VerificationFrame ==
  /\ [][pc = "data_verification"
          => /\ state'.ocr_texts = state.ocr_texts
             /\ state'.formatted_data = state.formatted_data
             /\ state'.messages = state.messages]_vars
  /\ [](pc \in {"decide_after_verification", "data_formatter"}
          => state.ocr_texts = SubmittedTexts /\ state.formatted_data = DNone)
  /\ [](\A i \in FormatterCalls : calls[i].pages = SubmittedTexts)
  /\ [](path = "merge"
          => state.formatted_data.d = merge_json_blocks(json_results_of(SubmittedTexts)).d)

\* five long pages, of which verification was sent three cut ones, were all
\* merged by the formatting stage
C29_Witness ==
  /\ pc = "returned"
  /\ Len(SubmittedTexts) = 5
  /\ Len(VerificationPages) = 3
  /\ VerificationPages[1] # SubmittedTexts[1]
  /\ path = "merge"
  /\ Len(state.formatted_data.d["answer"].s) = 9

\* the graph is running, or has run, for process_upsc_answer
GraphEntered ==
  args.entry = "process_upsc_answer" /\ Rank(pc) >= Rank("data_verification")
  /\ state.ocr_texts # << >>

\* C30: when the estimate of the extracted texts exceeds TOKEN_LIMIT,
\* process_upsc_answer cuts every text to CHAR_CAP characters before the
\* graph runs: the ocr_texts the graph works on are the cut texts, none
\* longer than CHAR_CAP.
C30_TextsCutBeforeWorkflow ==
  (GraphEntered /\ EstimatedTokens > TOKEN_LIMIT)
    => /\ state.ocr_texts = ocr.extracted_texts
       /\ \A i \in 1..Len(state.ocr_texts) : TextLen(state.ocr_texts[i]) <= CHAR_CAP

====
